---- MODULE Spec2Model ----
(***************************************************************************)
(* khronos: the log timestamp rewriter.  A model of the timestamp reader   *)
(* (src/src/parse.rs), the timestamp writer (src/src/write.rs) and the     *)
(* driving loop process_text (src/src/main.rs).                            *)
(*                                                                         *)
(* Text is a sequence of bytes, each byte a string: an ASCII character is  *)
(* the one-character string, the two bytes of the UTF-8 character U+00E9   *)
(* are "C3" and "A9".  Indices into text are the 0-based byte indices of   *)
(* the Rust source.                                                        *)
(*                                                                         *)
(* i64, u32 and u128 values do not fit a TLC integer, so a wide integer is *)
(* a record [neg, mag] whose mag is the sequence of its decimal digits,    *)
(* most significant first, without leading zeros (zero is <<0>>).          *)
(***************************************************************************)
EXTENDS Integers, Sequences, FiniteSets, TLC

VARIABLES
    build,        \* "debug" (overflow checks on) or "release" (wrapping)
    informat,     \* process_text: Option<InputFormat>
    outformat,    \* process_text: OutputFormat
    prev_intime,  \* process_text: Option<NaiveDateTime>
    lines,        \* the lines read from the input so far
    out,          \* the pairs handed to func so far
    pc,           \* "loop", "done" (end of input) or "panic"
    detects,      \* the results of the detect_format calls, one per line read
    passed,       \* the prev_t arguments of the write calls, one per line read
    arg,          \* a unit specification's input
    res           \* a unit specification's result

vars == <<build, informat, outformat, prev_intime, lines, out, pc, detects,
          passed, arg, res>>

----------------------------------------------------------------------------
(* Decimal digit sequences: the magnitudes of wide integers.               *)

Front(s) == SubSeq(s, 1, Len(s) - 1)

Last(s) == s[Len(s)]

ZeroSeq(n) == [i \in 1..n |-> 0]

\* ds without its leading zeros
StripZeros(ds) ==
    IF \A k \in 1..Len(ds) : ds[k] = 0 THEN <<0>>
    ELSE LET f == CHOOSE k \in 1..Len(ds) :
                      ds[k] # 0 /\ \A j \in 1..(k - 1) : ds[j] = 0
         IN  SubSeq(ds, f, Len(ds))

\* the order of two digit sequences of one length
LexCmp(a, b) ==
    IF a = b THEN 0
    ELSE LET f == CHOOSE k \in 1..Len(a) :
                      a[k] # b[k] /\ \A j \in 1..(k - 1) : a[j] = b[j]
         IN  IF a[f] < b[f] THEN -1 ELSE 1

NatCmp(a, b) ==
    IF Len(a) < Len(b) THEN -1
    ELSE IF Len(a) > Len(b) THEN 1
    ELSE LexCmp(a, b)

RECURSIVE NatFromInt(_)
NatFromInt(n) ==
    IF n < 10 THEN <<n>> ELSE Append(NatFromInt(n \div 10), n % 10)

RECURSIVE NatToInt(_)
NatToInt(a) ==
    IF a = <<>> THEN 0 ELSE NatToInt(Front(a)) * 10 + Last(a)

PadTo(a, n) == ZeroSeq(n - Len(a)) \o a

\* the carry into digit i of a + b: a digit to the right overflows and the
\* digits between pass the carry on
AddCarry(a, b, i) ==
    IF \E j \in (i + 1)..Len(a) :
           a[j] + b[j] >= 10 /\ \A k \in (i + 1)..(j - 1) : a[k] + b[k] = 9
    THEN 1 ELSE 0

AddDigits(a, b) ==
    SubSeq([i \in 1..Len(a) |-> (a[i] + b[i] + AddCarry(a, b, i)) % 10], 1, Len(a))

NatAdd(a, b) ==
    LET n == 1 + (IF Len(a) > Len(b) THEN Len(a) ELSE Len(b))
    IN  StripZeros(AddDigits(PadTo(a, n), PadTo(b, n)))

\* the borrow from digit i of a - b
SubBorrow(a, b, i) ==
    IF \E j \in (i + 1)..Len(a) :
           a[j] < b[j] /\ \A k \in (i + 1)..(j - 1) : a[k] = b[k]
    THEN 1 ELSE 0

SubDigits(a, b) ==
    SubSeq([i \in 1..Len(a) |-> (10 + a[i] - b[i] - SubBorrow(a, b, i)) % 10],
           1, Len(a))

\* a - b for a >= b
NatSub(a, b) == StripZeros(SubDigits(a, PadTo(b, Len(a))))

\* a * 10^k
NatShl(a, k) == IF a = <<0>> THEN a ELSE a \o ZeroSeq(k)

\* the digits of weight 10^k of the products a[i] * m, as a number
MulRow(a, m, k) ==
    LET p == CASE k = 0 -> 1 [] k = 1 -> 10 [] k = 2 -> 100 [] k = 3 -> 1000
               [] k = 4 -> 10000 [] k = 5 -> 100000 [] OTHER -> 1000000
    IN  NatShl(StripZeros([i \in 1..Len(a) |-> ((a[i] * m) \div p) % 10]), k)

\* a * m for a native m < 1000000
NatMulSmall(a, m) ==
    NatAdd(NatAdd(NatAdd(MulRow(a, m, 0), MulRow(a, m, 1)),
                  NatAdd(MulRow(a, m, 2), MulRow(a, m, 3))),
           NatAdd(NatAdd(MulRow(a, m, 4), MulRow(a, m, 5)), MulRow(a, m, 6)))

RECURSIVE DivStep(_, _, _, _)
DivStep(a, d, r, q) ==
    IF a = <<>> THEN [q |-> StripZeros(q), r |-> r]
    ELSE LET x == r * 10 + Head(a)
         IN  IF x < d THEN DivStep(Tail(a), d, x, Append(q, 0))
             ELSE DivStep(Tail(a), d, x % d, Append(q, x \div d))

\* quotient and remainder of a by a native d
NatDivModSmall(a, d) == DivStep(a, d, 0, <<>>)

\* a / 10^k
NatShr(a, k) == IF Len(a) <= k THEN <<0>> ELSE SubSeq(a, 1, Len(a) - k)

\* a % 10^k, native (k <= 9)
NatLow(a, k) ==
    IF Len(a) <= k THEN NatToInt(a)
    ELSE NatToInt(SubSeq(a, Len(a) - k + 1, Len(a)))

----------------------------------------------------------------------------
(* Wide signed integers.                                                   *)

Big(neg, mag) == [neg |-> neg /\ mag # <<0>>, mag |-> mag]

BigFromInt(n) == IF n < 0 THEN Big(TRUE, NatFromInt(-n)) ELSE Big(FALSE, NatFromInt(n))

BigZero == Big(FALSE, <<0>>)

BigNeg(x) == Big(~x.neg, x.mag)

BigAdd(x, y) ==
    IF x.neg = y.neg THEN Big(x.neg, NatAdd(x.mag, y.mag))
    ELSE IF NatCmp(x.mag, y.mag) >= 0 THEN Big(x.neg, NatSub(x.mag, y.mag))
    ELSE Big(y.neg, NatSub(y.mag, x.mag))

BigSub(x, y) == BigAdd(x, BigNeg(y))

BigCmp(x, y) ==
    IF x.neg /\ ~y.neg THEN -1
    ELSE IF ~x.neg /\ y.neg THEN 1
    ELSE IF x.neg THEN NatCmp(y.mag, x.mag)
    ELSE NatCmp(x.mag, y.mag)

\* native value of a wide integer known to fit
BigToInt(x) == IF x.neg THEN -NatToInt(x.mag) ELSE NatToInt(x.mag)

\* Rust's / and % by 10^k: the quotient truncates towards zero and the
\* remainder takes the sign of the dividend
BigQuotPow10(x, k) == Big(x.neg, NatShr(x.mag, k))

BigRemPow10(x, k) == IF x.neg THEN -NatLow(x.mag, k) ELSE NatLow(x.mag, k)

\* floored quotient and non-negative remainder by a native d > 0
BigDivModFloor(x, d) ==
    LET qr == NatDivModSmall(x.mag, d)
    IN  IF ~x.neg THEN [q |-> Big(FALSE, qr.q), r |-> qr.r]
        ELSE IF qr.r = 0 THEN [q |-> Big(TRUE, qr.q), r |-> 0]
        ELSE [q |-> Big(TRUE, NatAdd(qr.q, <<1>>)), r |-> d - qr.r]

I64MaxMag == <<9,2,2,3,3,7,2,0,3,6,8,5,4,7,7,5,8,0,7>>

I64MinMag == <<9,2,2,3,3,7,2,0,3,6,8,5,4,7,7,5,8,0,8>>

FitsI64(x) ==
    IF x.neg THEN NatCmp(x.mag, I64MinMag) <= 0
    ELSE NatCmp(x.mag, I64MaxMag) <= 0

Pow32Mag == <<4,2,9,4,9,6,7,2,9,6>>

Pow128Mag == <<3,4,0,2,8,2,3,6,6,9,2,0,9,3,8,4,6,3,4,6,3,3,7,4,6,0,7,4,3,1,7,6,8,
               2,1,1,4,5,6>>

----------------------------------------------------------------------------
(* Text.                                                                   *)

DigitChars == <<"0", "1", "2", "3", "4", "5", "6", "7", "8", "9">>

IsDigit(c) == \E d \in 1..10 : DigitChars[d] = c

DigitVal(c) == (CHOOSE d \in 1..10 : DigitChars[d] = c) - 1

AllDigits(s) == \A k \in 1..Len(s) : IsDigit(s[k])

DigitsOf(s) == [k \in 1..Len(s) |-> DigitVal(s[k])]

CharsOf(ds) == [k \in 1..Len(ds) |-> DigitChars[ds[k] + 1]]

\* "{}" of an unsigned magnitude
NatText(a) == CharsOf(a)

\* "{}" of a signed integer
BigText(x) == IF x.neg THEN <<"-">> \o CharsOf(x.mag) ELSE CharsOf(x.mag)

\* "{:0width$}" of a native n >= 0
ZeroPadText(n, width) ==
    LET ds == NatFromInt(n)
    IN  CharsOf(IF Len(ds) < width THEN PadTo(ds, width) ELSE ds)

\* the second and later bytes of a multi-byte UTF-8 character
IsContinuationByte(c) == c = "A9"

\* str::is_char_boundary, for a 0-based byte index k
IsCharBoundary(s, k) ==
    k = 0 \/ k = Len(s) \/ (k < Len(s) /\ ~IsContinuationByte(s[k + 1]))

\* str::find: the 0-based index of the first byte in cs, or -1
Find(s, cs) ==
    IF \E k \in 1..Len(s) : s[k] \in cs
    THEN (CHOOSE k \in 1..Len(s) : s[k] \in cs /\ \A j \in 1..(k - 1) : s[j] \notin cs) - 1
    ELSE -1

\* &s[a..b], 0-based and half-open
Slice(s, a, b) == SubSeq(s, a + 1, b)

Min(a, b) == IF a < b THEN a ELSE b

----------------------------------------------------------------------------
(* Options and results.  A call ends in a value, in no value, or in a      *)
(* panic that unwinds through every caller.                                *)

NoBig == [neg |-> FALSE, mag |-> <<>>]

NoTime == [secs |-> NoBig, nanos |-> 0]

NaiveDateTime(secs, nanos) == [secs |-> secs, nanos |-> nanos]

SomeTime(t) == [kind |-> "Some", t |-> t]

NoneTime == [kind |-> "None", t |-> NoTime]

PanicTime == [kind |-> "Panic", t |-> NoTime]

----------------------------------------------------------------------------
(* Rust's integer parsing (core::num, from_str_radix with radix 10).       *)

HasSign(s) == s # <<>> /\ Head(s) \in {"+", "-"}

\* str::parse::<i64>: an optional sign, then one or more digits, in range
ParseI64(s) ==
    LET body == IF HasSign(s) THEN Tail(s) ELSE s
        x == Big(s # <<>> /\ Head(s) = "-", StripZeros(DigitsOf(body)))
    IN  IF body = <<>> \/ ~AllDigits(body) THEN [ok |-> FALSE, v |-> NoBig]
        ELSE IF ~FitsI64(x) THEN [ok |-> FALSE, v |-> NoBig]
        ELSE [ok |-> TRUE, v |-> x]

\* str::parse::<u32>: an optional '+', then one or more digits, in range
ParseU32(s) ==
    LET body == IF s # <<>> /\ Head(s) = "+" THEN Tail(s) ELSE s
        m == StripZeros(DigitsOf(body))
    IN  IF body = <<>> \/ ~AllDigits(body) THEN [ok |-> FALSE, v |-> <<>>]
        ELSE IF NatCmp(m, Pow32Mag) >= 0 THEN [ok |-> FALSE, v |-> <<>>]
        ELSE [ok |-> TRUE, v |-> m]

----------------------------------------------------------------------------
(* parse_decimal                                                           *)

Pow10(k) == NatToInt(<<1>> \o ZeroSeq(k))

NoDecimal == [kind |-> "None", int |-> NoBig, nano |-> 0]

\* a slice of at most 8 bytes after the point
FracEndShort(s, i) == Min(Len(s), i + 9)

\* the end of the slice of fractional digits: at most 9 bytes after the point
FracEnd(s, i) == Min(Len(s), i + 10)

parse_decimal(s) ==
    LET i == Find(s, {"."})
        whole == ParseI64(IF i >= 0 THEN Slice(s, 0, i) ELSE s)
    IN  IF ~whole.ok THEN NoDecimal
        ELSE IF i < 0 THEN [kind |-> "Some", int |-> whole.v, nano |-> 0]
        ELSE IF ~IsCharBoundary(s, FracEnd(s, i))
             THEN [kind |-> "Panic", int |-> NoBig, nano |-> 0]
        ELSE LET f == Slice(s, i + 1, FracEnd(s, i))
                 n == ParseU32(f)
             IN  IF ~n.ok THEN NoDecimal
                 ELSE [kind |-> "Some", int |-> whole.v,
                       nano |-> NatToInt(n.v) * Pow10(9 - Len(f))]

----------------------------------------------------------------------------
(* chrono: the proleptic Gregorian calendar and NaiveDateTime, a count of  *)
(* seconds since 1970-01-01T00:00:00 and a nanosecond field that a leap    *)
(* second raises to 1,000,000,000 and above.                               *)

MinYear == -262144

MaxYear == 262143

\* days from 1970-01-01 to MinYear-01-01 and to MaxYear-12-31
MinDays == -96465658

MaxDays == 95026601

IsLeapYear(y) == y % 4 = 0 /\ (y % 100 # 0 \/ y % 400 = 0)

DaysInMonth(y, m) ==
    IF m = 2 THEN (IF IsLeapYear(y) THEN 29 ELSE 28)
    ELSE IF m \in {4, 6, 9, 11} THEN 30
    ELSE 31

\* days from 1970-01-01 to the civil date y-m-d
DaysFromCivil(y, m, d) ==
    LET yy == IF m <= 2 THEN y - 1 ELSE y
        era == yy \div 400
        yoe == yy - era * 400
        doy == (153 * (IF m > 2 THEN m - 3 ELSE m + 9) + 2) \div 5 + d - 1
        doe == yoe * 365 + yoe \div 4 - yoe \div 100 + doy
    IN  era * 146097 + doe - 719468

\* the civil date of a count of days from 1970-01-01
CivilFromDays(z0) ==
    LET z == z0 + 719468
        era == z \div 146097
        doe == z - era * 146097
        yoe == (doe - doe \div 1460 + doe \div 36524 - doe \div 146096) \div 365
        doy == doe - (365 * yoe + yoe \div 4 - yoe \div 100)
        mp == (5 * doy + 2) \div 153
        m == IF mp < 10 THEN mp + 3 ELSE mp - 9
    IN  [year |-> (yoe + era * 400) + (IF m <= 2 THEN 1 ELSE 0),
         month |-> m,
         day |-> doy - (153 * mp + 2) \div 5 + 1]

DaysInRange(days) ==
    BigCmp(days, BigFromInt(MinDays)) >= 0 /\ BigCmp(days, BigFromInt(MaxDays)) <= 0

TwoBillionMag == <<2,0,0,0,0,0,0,0,0,0>>

\* NaiveDateTime::from_timestamp_opt(secs: i64, nsecs: u32), nsecs a magnitude
from_timestamp_opt(secs, nsecs) ==
    IF DaysInRange(BigDivModFloor(secs, 86400).q) /\ NatCmp(nsecs, TwoBillionMag) < 0
    THEN SomeTime(NaiveDateTime(secs, NatToInt(nsecs)))
    ELSE NoneTime

\* NaiveDateTime::from_timestamp: expect("invalid or out-of-range datetime")
from_timestamp(secs, nsecs) ==
    LET r == from_timestamp_opt(secs, nsecs)
    IN  IF r.kind = "Some" THEN r ELSE PanicTime

\* NaiveDateTime + Duration, for a duration of secs whole seconds and nanos
\* nanoseconds (0 <= nanos < 10^9) and a datetime outside a leap second
AddDuration(t, secs, nanos) ==
    LET n == t.nanos + nanos
        carry == IF n >= 1000000000 THEN 1 ELSE 0
        s == BigAdd(BigAdd(t.secs, secs), BigFromInt(carry))
    IN  IF DaysInRange(BigDivModFloor(s, 86400).q)
        THEN SomeTime(NaiveDateTime(s, n - carry * 1000000000))
        ELSE PanicTime

\* the datetime of civil fields; sec 60 is a leap second after sec 59
DateTimeFromFields(y, m, d, hh, mm, ss, nano) ==
    LET sod == hh * 3600 + mm * 60 + (IF ss = 60 THEN 59 ELSE ss)
        days == BigFromInt(DaysFromCivil(y, m, d))
        secs == BigAdd(Big(days.neg, NatMulSmall(days.mag, 86400)), BigFromInt(sod))
    IN  NaiveDateTime(secs, nano + (IF ss = 60 THEN 1000000000 ELSE 0))

----------------------------------------------------------------------------
(* chrono: NaiveDateTime::parse_from_str.  A pattern is its sequence of    *)
(* items: a numeric field (%Y %m %d %H %M %S), a literal byte, or the      *)
(* optional fraction %.f.                                                  *)

Num(f) == [k |-> "num", f |-> f]

Lit(c) == [k |-> "lit", f |-> c]

NanoItem == [k |-> "nano", f |-> "f"]

\* "%Y-%m-%dT%H:%M:%S%.f"
Iso8601Items ==
    <<Num("Y"), Lit("-"), Num("m"), Lit("-"), Num("d"), Lit("T"),
      Num("H"), Lit(":"), Num("M"), Lit(":"), Num("S"), NanoItem>>

Fields == {"Y", "m", "d", "H", "M", "S", "f"}

NoParsed == [has |-> {}, v |-> [x \in Fields |-> 0]]

\* the number of leading digits among the first max bytes of s
RECURSIVE LeadingDigits(_, _)
LeadingDigits(s, max) ==
    IF s = <<>> \/ max = 0 \/ ~IsDigit(Head(s)) THEN 0
    ELSE 1 + LeadingDigits(Tail(s), max - 1)

\* scan::number(s, 1, max): the value and the number of bytes taken; a value
\* of ten digits or more is out of the range of every field
ScanNumber(s, max) ==
    LET upto == LeadingDigits(s, max)
        m == StripZeros(DigitsOf(SubSeq(s, 1, upto)))
    IN  IF upto < 1 \/ Len(m) > 9 THEN [ok |-> FALSE, v |-> 0, n |-> 0]
        ELSE [ok |-> TRUE, v |-> NatToInt(m), n |-> upto]

FieldWidth(f) == IF f = "Y" THEN 4 ELSE 2

\* a numeric item: only the year may carry a sign, which lifts its width
ScanField(s, f) ==
    IF f = "Y" /\ HasSign(s)
    THEN LET r == ScanNumber(Tail(s), Len(s))
         IN  [ok |-> r.ok, v |-> IF Head(s) = "-" THEN -r.v ELSE r.v, n |-> r.n + 1]
    ELSE ScanNumber(s, FieldWidth(f))

\* scan::nanosecond: up to nine digits scaled to nanoseconds, the further
\* digits skipped
ScanNanosecond(s) ==
    LET r == ScanNumber(s, 9)
    IN  [ok |-> r.ok, v |-> r.v * Pow10(9 - r.n), n |-> LeadingDigits(s, Len(s))]

\* Parsed::set_*: a field set twice must agree
SetField(p, f, v) ==
    IF f \in p.has /\ p.v[f] # v THEN [ok |-> FALSE, p |-> p]
    ELSE [ok |-> TRUE, p |-> [has |-> p.has \cup {f}, v |-> [p.v EXCEPT ![f] = v]]]

RECURSIVE ParseItems(_, _, _)
ParseItems(s, items, p) ==
    IF items = <<>> THEN [ok |-> s = <<>>, p |-> p]
    ELSE LET it == Head(items) IN
         IF it.k = "lit"
         THEN IF s # <<>> /\ Head(s) = it.f
              THEN ParseItems(Tail(s), Tail(items), p)
              ELSE [ok |-> FALSE, p |-> p]
         ELSE IF it.k = "num"
         THEN LET r == ScanField(s, it.f)
                  q == SetField(p, it.f, r.v)
              IN  IF r.ok /\ q.ok
                  THEN ParseItems(SubSeq(s, r.n + 1, Len(s)), Tail(items), q.p)
                  ELSE [ok |-> FALSE, p |-> p]
         ELSE IF s # <<>> /\ Head(s) = "."
         THEN LET r == ScanNanosecond(Tail(s))
                  q == SetField(p, "f", r.v)
              IN  IF r.ok /\ q.ok
                  THEN ParseItems(SubSeq(s, r.n + 2, Len(s)), Tail(items), q.p)
                  ELSE [ok |-> FALSE, p |-> p]
         ELSE ParseItems(s, Tail(items), p)

\* Parsed::to_naive_datetime_with_offset(0): the date needs year, month and
\* day, the time needs hour and minute; a fraction needs the second
ParsedToDateTime(p) ==
    LET v == p.v
        sec == IF "S" \in p.has THEN v["S"] ELSE 0
    IN  IF ~({"Y", "m", "d", "H", "M"} \subseteq p.has) THEN NoneTime
        ELSE IF v["Y"] < MinYear \/ v["Y"] > MaxYear THEN NoneTime
        ELSE IF v["m"] < 1 \/ v["m"] > 12 THEN NoneTime
        ELSE IF v["d"] < 1 \/ v["d"] > DaysInMonth(v["Y"], v["m"]) THEN NoneTime
        ELSE IF v["H"] > 23 \/ v["M"] > 59 \/ sec > 60 THEN NoneTime
        ELSE IF "f" \in p.has /\ "S" \notin p.has THEN NoneTime
        ELSE SomeTime(DateTimeFromFields(v["Y"], v["m"], v["d"], v["H"], v["M"], sec,
                                         IF "f" \in p.has THEN v["f"] ELSE 0))

parse_from_str(s, items) ==
    LET r == ParseItems(s, items, NoParsed)
    IN  IF r.ok THEN ParsedToDateTime(r.p) ELSE NoneTime

----------------------------------------------------------------------------
(* InputFormat, parse_string, parse_line, detect_format (parse.rs).        *)

Unix == [tag |-> "Unix", epoc |-> NoTime, fmt |-> <<>>]

UnixMs == [tag |-> "UnixMs", epoc |-> NoTime, fmt |-> <<>>]

Epoc(epoc) == [tag |-> "Epoc", epoc |-> epoc, fmt |-> <<>>]

Iso8601 == [tag |-> "Iso8601", epoc |-> NoTime, fmt |-> <<>>]

Custom(fmt) == [tag |-> "Custom", epoc |-> NoTime, fmt |-> fmt]

NoFormat == [tag |-> "None", epoc |-> NoTime, fmt |-> <<>>]

\* x mod 2^32
WrapU32(x) ==
    LET lo == NatDivModSmall(x, 65536)
        hi == NatDivModSmall(lo.q, 65536)
    IN  NatAdd(NatMulSmall(NatFromInt(hi.r), 65536), NatFromInt(lo.r))

\* the u32 result of an arithmetic operation whose exact value is x: out of
\* range it panics with overflow checks and wraps without them
ArithU32(x) ==
    IF NatCmp(x, Pow32Mag) < 0 THEN [ok |-> TRUE, v |-> x]
    ELSE IF build = "debug" THEN [ok |-> FALSE, v |-> <<>>]
    ELSE [ok |-> TRUE, v |-> WrapU32(x)]

\* (msec % 1000) as u32 * 1_000_000 + psec / 1000
UnixMsNanos(msec, psec) ==
    LET r == BigRemPow10(msec, 3)
        cast == IF r < 0 THEN NatSub(Pow32Mag, NatFromInt(-r)) ELSE NatFromInt(r)
        prod == ArithU32(NatShl(cast, 6))
    IN  IF ~prod.ok THEN prod
        ELSE ArithU32(NatAdd(prod.v, NatFromInt(psec \div 1000)))

\* Duration::MAX is i64::MAX milliseconds
DurationMaxSecsMag == <<9,2,2,3,3,7,2,0,3,6,8,5,4,7,7,5>>

parse_string(s, format) ==
    IF format.tag \in {"Iso8601", "Custom"}
    THEN parse_from_str(s, IF format.tag = "Iso8601" THEN Iso8601Items ELSE format.fmt)
    ELSE LET d == parse_decimal(s) IN
         IF d.kind = "None" THEN NoneTime
         ELSE IF d.kind = "Panic" THEN PanicTime
         ELSE IF format.tag = "Unix" THEN from_timestamp(d.int, NatFromInt(d.nano))
         ELSE IF format.tag = "UnixMs"
         THEN LET n == UnixMsNanos(d.int, d.nano)
              IN  IF ~n.ok THEN PanicTime
                  ELSE from_timestamp(BigQuotPow10(d.int, 3), n.v)
         ELSE \* Epoc: epoc + Duration::seconds(sec) + Duration::nanoseconds(nsec)
              IF NatCmp(d.int.mag, DurationMaxSecsMag) > 0 THEN PanicTime
              ELSE LET a == AddDuration(format.epoc, d.int, 0)
                   IN  IF a.kind = "Panic" THEN PanicTime
                       ELSE AddDuration(a.t, BigZero, d.nano)

Whitespace == {" ", "\t"}

LineResult(kind, t, text) == [kind |-> kind, t |-> t, text |-> text]

parse_line(s, format) ==
    LET i == Find(s, Whitespace) IN
    IF i < 0 THEN LineResult("None", NoTime, s)
    ELSE LET r == parse_string(Slice(s, 0, i), format)
         IN  IF r.kind = "Some" THEN LineResult("Some", r.t, Slice(s, i, Len(s)))
             ELSE IF r.kind = "None" THEN LineResult("None", NoTime, s)
             ELSE LineResult("Panic", NoTime, <<>>)

HundredBillionMag == <<1,0,0,0,0,0,0,0,0,0,0,0>>

DetectResult(kind, format) == [kind |-> kind, format |-> format]

detect_format(s) ==
    LET i == Find(s, Whitespace)
        ts == Slice(s, 0, i)
    IN  IF i < 0 THEN DetectResult("None", NoFormat)
        ELSE IF parse_from_str(ts, Iso8601Items).kind = "Some"
             THEN DetectResult("Some", Iso8601)
        ELSE LET d == parse_decimal(ts) IN
             IF d.kind = "Panic" THEN DetectResult("Panic", NoFormat)
             ELSE IF d.kind = "None" THEN DetectResult("None", NoFormat)
             ELSE IF BigCmp(d.int, Big(FALSE, HundredBillionMag)) > 0
                  THEN DetectResult("Some", UnixMs)
             ELSE DetectResult("Some", Unix)

----------------------------------------------------------------------------
(* OutputFormat, format_seconds, write (write.rs).                         *)

Seconds == 0

Milliseconds == 1

Microseconds == 2

Nanoseconds == 3

OutIso8601(prec, time_only) ==
    [tag |-> "Iso8601", unit |-> Seconds, prec |-> prec, time_only |-> time_only]

OutUnix(unit, prec) ==
    [tag |-> "Unix", unit |-> unit, prec |-> prec, time_only |-> FALSE]

OutDelta(unit, prec) ==
    [tag |-> "Delta", unit |-> unit, prec |-> prec, time_only |-> FALSE]

TextResult(text) == [kind |-> "Ok", text |-> text]

PanicText == [kind |-> "Panic", text |-> <<>>]

\* the low n 16-bit limbs of x: x mod 2^(16 n)
RECURSIVE LowLimbs(_, _)
LowLimbs(x, n) ==
    IF n = 0 THEN <<0>>
    ELSE IF x = <<0>> THEN x
    ELSE LET qr == NatDivModSmall(x, 65536)
             high == LowLimbs(qr.q, n - 1)
         IN  IF high = <<0>> THEN NatFromInt(qr.r)
             ELSE NatAdd(NatMulSmall(high, 65536), NatFromInt(qr.r))

\* the u128 result of an arithmetic operation whose exact value is x
ArithU128(x) ==
    IF NatCmp(x, Pow128Mag) < 0 THEN [ok |-> TRUE, v |-> x]
    ELSE IF build = "debug" THEN [ok |-> FALSE, v |-> <<>>]
    ELSE [ok |-> TRUE, v |-> LowLimbs(x, 8)]

\* seconds as u128: the two's complement of a negative i64, sign-extended
AsU128(x) == IF x.neg THEN NatSub(Pow128Mag, x.mag) ELSE x.mag

\* x as u32, for an i64 x with |x| < 2^32
AsU32(n) == IF n < 0 THEN NatSub(Pow32Mag, NatFromInt(-n)) ELSE NatFromInt(n)

\* seconds as u128 * mag as u128 + (nanos / rmag) as u128
FullUnits(seconds, nanos, units) ==
    LET prod == ArithU128(NatShl(AsU128(seconds), 3 * units))
    IN  IF ~prod.ok THEN prod
        ELSE ArithU128(NatAdd(prod.v, NatShr(nanos, 9 - 3 * units)))

\* the digits after the point, frac rounded to prec digits
FracTextRounded(frac, frac_digits, prec) ==
    IF frac_digits > prec
    THEN ZeroPadText((frac + Pow10(frac_digits - prec) \div 2)
                         \div Pow10(frac_digits - prec), prec)
    ELSE ZeroPadText(frac * Pow10(prec - frac_digits), prec)

\* the digits after the point, frac printed whatever the precision
FracTextUnscaled(frac, frac_digits, prec) == ZeroPadText(frac, prec)

\* the digits after the point: frac cut or padded to prec digits
FracText(frac, frac_digits, prec) ==
    IF frac_digits > prec
    THEN ZeroPadText(frac \div Pow10(frac_digits - prec), prec)
    ELSE ZeroPadText(frac * Pow10(prec - frac_digits), prec)

\* format_seconds(seconds: i64, nanos: u32, units, prec), nanos a magnitude
format_seconds(seconds, nanos, units, prec) ==
    LET full == FullUnits(seconds, nanos, units)
        frac_digits == 9 - units * 3
        frac == NatLow(nanos, frac_digits)
    IN  IF prec > 9 \/ ~full.ok THEN PanicText
        ELSE IF prec = 0 THEN TextResult(NatText(full.v))
        ELSE TextResult(NatText(full.v) \o <<".">> \o FracText(frac, frac_digits, prec))

\* chrono's %Y: four digits, and a sign with at least four digits when the
\* year is not in 0..9999
YearText(y) ==
    IF 0 <= y /\ y < 10000 THEN ZeroPadText(y, 4)
    ELSE <<IF y < 0 THEN "-" ELSE "+">> \o ZeroPadText(IF y < 0 THEN -y ELSE y, 4)

\* "%Y-%m-%d" of the date of t
FormatDate(t) ==
    LET c == CivilFromDays(BigToInt(BigDivModFloor(t.secs, 86400).q))
    IN  YearText(c.year) \o <<"-">> \o ZeroPadText(c.month, 2) \o <<"-">>
        \o ZeroPadText(c.day, 2)

\* "%H:%M:%S" of the time of t: a leap second shows as second 60
FormatTime(t) ==
    LET sod == BigDivModFloor(t.secs, 86400).r
        leap == IF t.nanos >= 1000000000 THEN 1 ELSE 0
    IN  ZeroPadText(sod \div 3600, 2) \o <<":">>
        \o ZeroPadText((sod \div 60) % 60, 2) \o <<":">>
        \o ZeroPadText((sod % 60) + leap, 2)

\* "%.9f" of the nanoseconds of t
FormatNanos9(t) == <<".">> \o ZeroPadText(t.nanos % 1000000000, 9)

\* t.format("%Y-%m-%dT%H:%M:%S%.9f") or t.format("%H:%M:%S%.9f")
FormatDateTime(t, time_only) ==
    IF time_only THEN FormatTime(t) \o FormatNanos9(t)
    ELSE FormatDate(t) \o <<"T">> \o FormatTime(t) \o FormatNanos9(t)

\* String::truncate(new_len): no effect when new_len exceeds the length
Truncate(s, new_len) == IF new_len <= Len(s) THEN SubSeq(s, 1, new_len) ELSE s

\* a cut that always counts from the fraction's first digit
IsoLenFromPoint(s, prec) == Len(s) - 9 + prec

\* the length write leaves of the formatted datetime s
IsoLen(s, prec) == IF prec = 0 THEN Len(s) - 10 ELSE Len(s) - 9 + prec

\* (t - prev).num_nanoseconds(): chrono counts a leap second of the earlier
\* time of day
DeltaNanos(t, prev) ==
    LET ts == BigDivModFloor(t.secs, 86400).r
        ps == BigDivModFloor(prev.secs, 86400).r
        adjust == IF ts > ps THEN (IF prev.nanos >= 1000000000 THEN 1 ELSE 0)
                  ELSE IF ts < ps THEN (IF t.nanos >= 1000000000 THEN -1 ELSE 0)
                  ELSE 0
        secs == BigAdd(BigSub(t.secs, prev.secs), BigFromInt(adjust))
    IN  BigAdd(Big(secs.neg, NatShl(secs.mag, 9)), BigFromInt(t.nanos - prev.nanos))

write(format, t, prev_t) ==
    IF format.tag = "Iso8601"
    THEN LET s == FormatDateTime(t, format.time_only)
         IN  TextResult(Truncate(s, IsoLen(s, format.prec)))
    ELSE IF format.tag = "Unix"
    THEN format_seconds(t.secs, NatFromInt(t.nanos), format.unit, format.prec)
    ELSE LET ns == DeltaNanos(t, IF prev_t.kind = "Some" THEN prev_t.t ELSE t)
         IN  IF ~FitsI64(ns) THEN PanicText
             ELSE format_seconds(BigQuotPow10(ns, 9), AsU32(BigRemPow10(ns, 9)),
                                 format.unit, format.prec)

----------------------------------------------------------------------------
(* process_text (main.rs): the driving loop, one action per iteration.     *)

\* the number of lines read before the input ends
MaxLines == 3

\* the lines the input may hold: "5 a", "7.5\tb", "notime", "no time", "",
\* "2001-02-13T12:34:56.5 e", "982240496123 f" and "99999999999999999 g"
DriverLines ==
    {
      <<"5", " ", "a">>,
      <<"7", ".", "5", "\t", "b">>,
      <<"n", "o", "t", "i", "m", "e">>,
      <<"n", "o", " ", "t", "i", "m", "e">>,
      <<>>,
      <<"2", "0", "0", "1", "-", "0", "2", "-", "1", "3", "T", "1", "2", ":", "3", "4", ":", "5", "6", ".", "5", " ", "e">>,
      <<"9", "8", "2", "2", "4", "0", "4", "9", "6", "1", "2", "3", " ", "f">>,
      <<"9", "9", "9", "9", "9", "9", "9", "9", "9", "9", "9", "9", "9", "9", "9", "9", "9", " ", "g">>
    }

\* Args.informat: parse_input_format gives unix, unixms or iso, and no
\* --informat leaves None
DriverInFormats == {NoFormat, Unix, UnixMs, Iso8601}

\* Args.outformat, as parse_output_format builds it
DriverOutFormats ==
    {OutIso8601(0, FALSE), OutUnix(Seconds, 0), OutDelta(Milliseconds, 3)}

Builds == {"debug", "release"}

NoInput == [op |-> "none"]

Emit(time, text) == [time |-> time, text |-> text]

\* a detection step that does not look at what is known
NeedsDetectAlways(format) == TRUE

\* informat.is_none()
NeedsDetect(format) == format.tag = "None"

\* the format after the detection step of an iteration, det the result of
\* detect_format on the line
DetectedFormat(format, det) == IF NeedsDetect(format) THEN det.format ELSE format

\* the record of an iteration's detection step
DetectTrace(format, det) ==
    [before |-> format, kind |-> IF NeedsDetect(format) THEN det.kind ELSE "skip"]

\* the record of an iteration's parse_line and write calls
ParseTrace(parsed, t) == [parsed |-> parsed, t |-> t, prev |-> prev_intime]

\* the timestamp kept for the next iteration
NextPrev(intime, prev) == intime

Init ==
    /\ build \in Builds
    /\ informat \in DriverInFormats
    /\ outformat \in DriverOutFormats
    /\ prev_intime = NoneTime
    /\ lines = <<>>
    /\ out = <<>>
    /\ pc = "loop"
    /\ detects = <<>>
    /\ passed = <<>>
    /\ arg = NoInput
    /\ res = NoInput

\* a panic ends the loop: nothing is handed to func
Panicked == pc' = "panic" /\ UNCHANGED <<prev_intime, out>>

\* func("", &line): the format is unknown
PassThrough(line) ==
    /\ out' = Append(out, Emit(<<>>, line))
    /\ passed' = Append(passed, ParseTrace("skip", NoTime))
    /\ UNCHANGED <<prev_intime, pc>>

\* prev_intime = intime; func(&outtime, text): r the result of parse_line and
\* w the text of write, the empty text without a timestamp
Forward(r, w) ==
    IF w.kind = "Panic" THEN Panicked
    ELSE /\ prev_intime' = NextPrev([kind |-> r.kind, t |-> r.t], prev_intime)
         /\ out' = Append(out, Emit(w.text, r.text))
         /\ UNCHANGED pc

\* the match on intime: r the result of parse_line
Render(r) ==
    /\ passed' = Append(passed, ParseTrace(r.kind, r.t))
    /\ IF r.kind = "Panic" THEN Panicked
       ELSE IF r.kind = "Some" THEN Forward(r, write(outformat, r.t, prev_intime))
       ELSE Forward(r, TextResult(<<>>))

\* the line under the format fmt of the detection step
Process(line, fmt) ==
    /\ informat' = fmt
    /\ IF fmt.tag = "None" THEN PassThrough(line) ELSE Render(parse_line(line, fmt))

\* the loop body from the detection step on, det the result of detect_format
\* on the line
Detect(line, det) ==
    /\ detects' = Append(detects, DetectTrace(informat, det))
    /\ IF NeedsDetect(informat) /\ det.kind = "Panic"
       THEN /\ Panicked
            /\ passed' = Append(passed, ParseTrace("skip", NoTime))
            /\ UNCHANGED informat
       ELSE Process(line, DetectedFormat(informat, det))

\* one iteration of the for loop on the next line of the input
ProcessLine(line) ==
    /\ pc = "loop"
    /\ Len(lines) < MaxLines
    /\ lines' = Append(lines, line)
    /\ UNCHANGED <<build, outformat, arg, res>>
    /\ Detect(line, detect_format(line))

\* input.lines() ends
EndOfInput ==
    /\ pc = "loop"
    /\ pc' = "done"
    /\ UNCHANGED <<build, informat, outformat, prev_intime, lines, out, detects,
                   passed, arg, res>>

Next == (\E line \in DriverLines : ProcessLine(line)) \/ EndOfInput

Spec == Init /\ [][Next]_vars

----------------------------------------------------------------------------
(* Properties of process_text.                                             *)

\* the lines read so far
Read == 1..Len(lines)

\* a timestamp was obtained for line k
Timestamped(k) == passed[k].parsed = "Some"

\* the timestamp of the most recent line before k whose timestamp parsed
LastParsedBefore(k) ==
    IF \E j \in 1..(k - 1) : Timestamped(j)
    THEN LET j == CHOOSE i \in 1..(k - 1) :
                      Timestamped(i) /\ \A h \in (i + 1)..(k - 1) : ~Timestamped(h)
         IN  SomeTime(passed[j].t)
    ELSE NoneTime

\* C2: every line read for which no timestamp is obtained is emitted as the
\* pair of the empty timestamp text and the complete line, and every line
\* whose token parsed is emitted with a non-empty timestamp text and a
\* shortened remainder
C2_PassThrough ==
    \A k \in Read :
        /\ k <= Len(out)
        /\ ~Timestamped(k) => out[k] = Emit(<<>>, lines[k])
        /\ Timestamped(k) =>
               out[k].time # <<>> /\ Len(out[k].text) < Len(lines[k])

\* C3: the previous timestamp handed to write for a line is the timestamp of
\* the most recent earlier line whose timestamp parsed
C3_PrevIsLastParsed ==
    \A k \in Read : Timestamped(k) => passed[k].prev = LastParsedBefore(k)

\* the latest detection step
LastDetect == detects[Len(detects)]

\* C4: a known input format never changes, and detect_format is called on a
\* line exactly while the format is unknown: on every line until it first
\* succeeds, whose format is then kept, and never afterwards
C4_FormatFixed ==
    [][/\ informat.tag # "None" => informat' = informat
       /\ Len(detects') > Len(detects) =>
              /\ LastDetect'.kind # "skip" <=> informat.tag = "None"
              /\ LastDetect'.kind = "Some" => informat'.tag # "None"
              /\ LastDetect'.kind = "None" => informat'.tag = "None"]_vars

\* a format was detected on one line, and a later line failed to parse under
\* it without a new detection
C4_Witness ==
    \E j \in Read : \E k \in Read :
        /\ j < k
        /\ detects[j].kind = "Some"
        /\ detects[k].kind = "skip"
        /\ passed[k].parsed = "None"

\* C5: one output pair per line read, in the order of the lines, each
\* forwarded before the next line is read, and none dropped
C5_OnePairPerLine ==
    /\ Len(out) = Len(lines)
    /\ \A k \in Read :
           \E i \in 0..Len(lines[k]) :
               out[k].text = SubSeq(lines[k], i + 1, Len(lines[k]))

----------------------------------------------------------------------------
(* The reader on its own: parse_line and detect_format applied to a line.  *)

\* the leading tokens of the lines read: decimal numbers at the limits of
\* i64, of the calendar and of the detection threshold, fractions of every
\* shape, ISO 8601 datetimes and text that is no timestamp
ReadTokens ==
    {
      <<"5">>,
      <<"7", ".", "5">>,
      <<"-", "2">>,
      <<"+", "3">>,
      <<"1", ".">>,
      <<".", "5">>,
      <<"1", ".", "+", "5">>,
      <<"1", ".", "-", "5">>,
      <<"1", ".", "1", "2", "3", "4", "5", "6", "7", "8", "9">>,
      <<"1", ".", "1", "2", "3", "4", "5", "6", "7", "8", "9", "1">>,
      <<"1", ".", "1", "2", "3", "4", "5", "6", "7", "8", "C3", "A9">>,
      <<"1", ".", "1", "2", "3", "4", "5", "6", "7", "C3", "A9">>,
      <<"C3", "A9">>,
      <<"-", "1", ".", "5">>,
      <<"a", "b", "c">>,
      <<>>,
      <<"1", "0", "0", "0", "0", "0", "0", "0", "0", "0", "0", "0">>,
      <<"1", "0", "0", "0", "0", "0", "0", "0", "0", "0", "0", "1">>,
      <<"9", "8", "2", "2", "4", "0", "4", "9", "6", "1", "2", "3">>,
      <<"-", "1", "0", "0", "0", "0", "0", "0", "0", "0", "0", "0", "1">>,
      <<"8", "2", "1", "0", "2", "9", "8", "4", "1", "2", "7", "9", "9">>,
      <<"8", "2", "1", "0", "2", "9", "8", "4", "1", "2", "8", "0", "0">>,
      <<"-", "8", "3", "3", "4", "6", "3", "2", "8", "5", "1", "2", "0", "0">>,
      <<"-", "8", "3", "3", "4", "6", "3", "2", "8", "5", "1", "2", "0", "1">>,
      <<"9", "2", "2", "3", "3", "7", "2", "0", "3", "6", "8", "5", "4", "7", "7", "5", "8", "0", "7">>,
      <<"9", "2", "2", "3", "3", "7", "2", "0", "3", "6", "8", "5", "4", "7", "7", "5", "8", "0", "8">>,
      <<"-", "9", "2", "2", "3", "3", "7", "2", "0", "3", "6", "8", "5", "4", "7", "7", "5", "8", "0", "8">>,
      <<"2", "0", "0", "1", "-", "0", "2", "-", "1", "3", "T", "1", "2", ":", "3", "4", ":", "5", "6">>,
      <<"2", "0", "0", "1", "-", "0", "2", "-", "1", "3", "T", "1", "2", ":", "3", "4", ":", "5", "6", ".", "5">>,
      <<"2", "0", "0", "1", "-", "0", "2", "-", "1", "3", "T", "1", "2", ":", "3", "4", ":", "6", "0">>,
      <<"2", "0", "0", "1", "-", "2", "-", "3", "T", "4", ":", "5", ":", "6">>,
      <<"2", "0", "0", "1", "-", "0", "2", "-", "3", "0", "T", "1", "2", ":", "3", "4", ":", "5", "6">>,
      <<"+", "1", "2", "3", "4", "5", "-", "0", "1", "-", "0", "1", "T", "0", "0", ":", "0", "0", ":", "0", "0">>,
      <<"1", "2", "3", "4", "5", "-", "0", "1", "-", "0", "1", "T", "0", "0", ":", "0", "0", ":", "0", "0">>,
      <<"2", "0", "0", "1", "-", "0", "2", "-", "1", "3", "T", "1", "2", ":", "3", "4">>,
      <<"2", "0", "0", "1", "-", "0", "2", "-", "1", "3">>,
      <<"2", "0", "0", "1", "-", "0", "2", "-", "1", "3", "T", "1", "2", ":", "3", "4", ":", "5", "6", ".">>,
      <<"2", "0", "0", "1", "-", "0", "2", "-", "1", "3", "T", "1", "2", ":", "3", "4", ":", "5", "6", ".", "1", "2", "3", "4", "5", "6", "7", "8", "9", "1">>,
      <<"2", "0", "0", "1", "-", "0", "2", "-", "1", "3", "T", "1", "2", ":", "3", "4", ":", "5", "6", "x">>,
      <<"-", "0", "0", "0", "1", "-", "1", "2", "-", "3", "1", "T", "2", "3", ":", "5", "9", ":", "5", "9">>
    }

\* what follows the token: nothing, or a separator and the rest of the line
ReadRests ==
    {
      <<>>,
      <<" ", "x">>,
      <<"\t", "y", " ", "z">>,
      <<" ">>
    }

\* the lines read, two of them starting with a separator
ReadLines ==
    {t \o r : t \in ReadTokens, r \in ReadRests}
        \cup {<<" ", "5", " ", "a">>, <<"\t">>}

\* "%Y-%m-%dT%H:%M"
MinuteItems ==
    <<Num("Y"), Lit("-"), Num("m"), Lit("-"), Num("d"), Lit("T"),
      Num("H"), Lit(":"), Num("M")>>

\* the input formats: every variant of InputFormat, Epoc from 2001-02-15T12:34:56
ReadFormats ==
    {Unix, UnixMs, Epoc(NaiveDateTime(BigFromInt(982240496), 0)), Iso8601,
     Custom(MinuteItems)}

ReadArg(line, format) == [op |-> "read", line |-> line, format |-> format]

ReadInit ==
    /\ build \in Builds
    /\ informat = NoFormat
    /\ outformat = OutIso8601(0, FALSE)
    /\ prev_intime = NoneTime
    /\ lines = <<>>
    /\ out = <<>>
    /\ detects = <<>>
    /\ passed = <<>>
    /\ pc = "call"
    /\ arg \in {ReadArg(line, format) : line \in ReadLines, format \in ReadFormats}
    /\ res = NoInput

\* parse_line(&arg.line, arg.format)
CallParseLine ==
    /\ pc = "call"
    /\ arg.op = "read"
    /\ pc' = "parse_line"
    /\ res' = parse_line(arg.line, arg.format)
    /\ UNCHANGED <<build, informat, outformat, prev_intime, lines, out, detects,
                   passed, arg>>

\* detect_format(&arg.line)
CallDetectFormat ==
    /\ pc = "call"
    /\ arg.op = "read"
    /\ pc' = "detect_format"
    /\ res' = detect_format(arg.line)
    /\ UNCHANGED <<build, informat, outformat, prev_intime, lines, out, detects,
                   passed, arg>>

ReadNext == CallParseLine \/ CallDetectFormat

SpecRead == ReadInit /\ [][ReadNext]_vars

\* the token of a line: the text before the first space or tab
HasToken(line) == Find(line, Whitespace) >= 0

Token(line) == Slice(line, 0, Find(line, Whitespace))

\* C1: parse_line returns a timestamp exactly when the line has a separator
\* and the token before the first one parses under the format; the remainder
\* then starts with the separator, and token and remainder make up the line;
\* in every other case it returns no timestamp and the whole line
C1_ParseLineContract ==
    pc = "parse_line" =>
        LET parses == HasToken(arg.line)
                      /\ parse_string(Token(arg.line), arg.format).kind = "Some"
        IN  /\ res.kind \in {"Some", "None"}
            /\ res.kind = "Some" <=> parses
            /\ res.kind = "Some" =>
                   /\ res.t = parse_string(Token(arg.line), arg.format).t
                   /\ Head(res.text) \in Whitespace
                   /\ Token(arg.line) \o res.text = arg.line
            /\ res.kind = "None" => res.text = arg.line

\* C6: detect_format looks at the token only: Iso8601 if it matches the ISO
\* pattern, otherwise UnixMs if it parses as a decimal whose integer part
\* exceeds 100,000,000,000 and Unix if it parses as a smaller or equal one,
\* otherwise no format; never Epoc or Custom
C6_DetectClassifies ==
    pc = "detect_format" =>
        LET token == Token(arg.line)
            iso == parse_from_str(token, Iso8601Items).kind = "Some"
            d == parse_decimal(token)
        IN  /\ res.kind \in {"Some", "None"}
            /\ res.format.tag \notin {"Epoc", "Custom"}
            /\ res.format =
                   IF ~HasToken(arg.line) THEN NoFormat
                   ELSE IF iso THEN Iso8601
                   ELSE IF d.kind = "Some"
                        THEN (IF BigCmp(d.int, Big(FALSE, HundredBillionMag)) > 0
                              THEN UnixMs ELSE Unix)
                   ELSE NoFormat
            /\ res.kind = "Some" <=> res.format # NoFormat

----------------------------------------------------------------------------
(* The writer on its own: write applied to a format, a timestamp and a     *)
(* previous timestamp, and its text read back by parse_string.             *)

\* Precision(n): try_parse_precision admits 0..9
MaxPrecision == 9

Precisions == 0..MaxPrecision

Units == {Seconds, Milliseconds, Microseconds, Nanoseconds}

\* every OutputFormat that parse_output_format builds
WriteFormats ==
    {OutIso8601(p, o) : p \in Precisions, o \in BOOLEAN}
        \cup {OutUnix(u, p) : u \in Units, p \in Precisions}
        \cup {OutDelta(u, p) : u \in Units, p \in Precisions}

\* seconds from the epoch: around it, at the ends of a day, in 2001 and as
\* far before 1970, at year 0, after year 9999 and at the limits of the
\* calendar
WriteSeconds ==
    {BigFromInt(0), BigFromInt(1), BigFromInt(59), BigFromInt(86399),
     BigFromInt(982240496), BigFromInt(-1), BigFromInt(-2), BigFromInt(-86400),
     BigFromInt(-982240496),
     Big(TRUE, <<6,2,1,6,7,2,1,9,2,0,1>>),
     Big(FALSE, <<2,5,3,4,0,2,3,0,0,8,0,0>>),
     Big(FALSE, <<8,2,1,0,2,9,8,4,1,2,7,9,9>>),
     Big(TRUE, <<8,3,3,4,6,3,2,8,5,1,2,0,0>>)}

\* nanosecond fields: none, the smallest, every digit distinct, a half, the
\* largest, and a leap second
WriteNanos == {0, 1, 123456789, 500000000, 999999999, 1500000000}

WriteTimes == {NaiveDateTime(secs, n) : secs \in WriteSeconds, n \in WriteNanos}

\* the timestamps of the Delta pairs
DeltaTimes ==
    {NaiveDateTime(BigFromInt(0), 0), NaiveDateTime(BigFromInt(5), 0),
     NaiveDateTime(BigFromInt(7), 500000000), NaiveDateTime(BigFromInt(7), 123456789),
     NaiveDateTime(BigFromInt(-2), 999999999),
     NaiveDateTime(BigFromInt(982240496), 1500000000),
     NaiveDateTime(Big(FALSE, <<8,2,1,0,2,9,8,4,1,2,7,9,9>>), 0),
     NaiveDateTime(Big(TRUE, <<8,3,3,4,6,3,2,8,5,1,2,0,0>>), 0)}

WriteArg(format, t, prev) == [op |-> "write", format |-> format, t |-> t, prev |-> prev]

\* write's arguments: only Delta looks at the previous timestamp
WriteArgs ==
    {WriteArg(f, t, NoneTime) : f \in WriteFormats, t \in WriteTimes}
        \cup {WriteArg(f, t, SomeTime(p)) :
                  f \in {OutDelta(u, q) : u \in Units, q \in Precisions},
                  t \in DeltaTimes, p \in DeltaTimes}

WriteInit ==
    /\ build \in Builds
    /\ informat = NoFormat
    /\ outformat = OutIso8601(0, FALSE)
    /\ prev_intime = NoneTime
    /\ lines = <<>>
    /\ out = <<>>
    /\ detects = <<>>
    /\ passed = <<>>
    /\ pc = "call"
    /\ arg \in WriteArgs
    /\ res = NoInput

\* write(arg.format, arg.t, arg.prev)
CallWrite ==
    /\ pc = "call"
    /\ arg.op = "write"
    /\ pc' = "write"
    /\ res' = [w |-> write(arg.format, arg.t, arg.prev), back |-> NoneTime]
    /\ UNCHANGED <<build, informat, outformat, prev_intime, lines, out, detects,
                   passed, arg>>

\* parse_string(&text, InputFormat::Unix) of the text written
CallParseString ==
    /\ pc = "write"
    /\ res.w.kind = "Ok"
    /\ pc' = "parse_string"
    /\ res' = [res EXCEPT !.back = parse_string(res.w.text, Unix)]
    /\ UNCHANGED <<build, informat, outformat, prev_intime, lines, out, detects,
                   passed, arg>>

WriteNext == CallWrite \/ CallParseString

SpecWrite == WriteInit /\ [][WriteNext]_vars

----------------------------------------------------------------------------
(* Properties of write.                                                    *)

\* the decimal text of the magnitude mag of a count of nanoseconds in units
\* of 10^(9 - 3 unit) nanoseconds, cut after prec fraction digits
FixedText(mag, unit, prec) ==
    LET frac_digits == 9 - 3 * unit
        frac == ZeroPadText(NatLow(mag, frac_digits), frac_digits) \o CharsOf(ZeroSeq(9))
    IN  NatText(NatShr(mag, frac_digits))
            \o (IF prec = 0 THEN <<>> ELSE <<".">> \o SubSeq(frac, 1, prec))

\* the text of a signed count of nanoseconds: a minus sign before the
\* integer part of a negative one
SignedFixedText(ns, unit, prec) ==
    (IF ns.neg THEN <<"-">> ELSE <<>>) \o FixedText(ns.mag, unit, prec)

Written == pc # "call" /\ arg.op = "write"

\* C7: write with Delta renders the signed duration from the previous
\* timestamp (zero without one) in the unit, cut to the precision, with a
\* leading minus sign when the previous timestamp is the later one
C7_DeltaSigned ==
    Written /\ arg.format.tag = "Delta" =>
        /\ res.w.kind = "Ok"
        /\ res.w.text =
               SignedFixedText(
                   DeltaNanos(arg.t, IF arg.prev.kind = "Some" THEN arg.prev.t ELSE arg.t),
                   arg.format.unit, arg.format.prec)

\* seconds * scale + nanos / residue_scale as a signed number, the nanos
\* counted after the seconds
UnixWhole(t, unit) ==
    BigAdd(Big(t.secs.neg, NatShl(t.secs.mag, 3 * unit)),
           BigFromInt(t.nanos \div Pow10(9 - 3 * unit)))

\* the remainder of the nanos in the unit, to prec digits
UnixFraction(t, unit, prec) ==
    LET frac_digits == 9 - 3 * unit
        frac == ZeroPadText(t.nanos % Pow10(frac_digits), frac_digits)
                    \o CharsOf(ZeroSeq(9))
    IN  IF prec = 0 THEN <<>> ELSE <<".">> \o SubSeq(frac, 1, prec)

\* C8: for a timestamp of negative seconds with nanos below 10^9, write with
\* Unix does not panic and renders the signed number seconds * scale +
\* nanos / residue_scale with the remainder as the fraction
C8_UnixPreEpoch ==
    Written /\ arg.format.tag = "Unix" /\ arg.t.secs.neg /\ arg.t.nanos < 1000000000 =>
        /\ res.w.kind = "Ok"
        /\ res.w.text =
               BigText(UnixWhole(arg.t, arg.format.unit))
                   \o UnixFraction(arg.t, arg.format.unit, arg.format.prec)

\* the nine digits of the nanosecond field
NanoDigits(t) == ZeroPadText(t.nanos % 1000000000, 9)

\* the date and time, or the time only, without a fraction
IsoWhole(t, time_only) ==
    IF time_only THEN FormatTime(t) ELSE FormatDate(t) \o <<"T">> \o FormatTime(t)

\* C9: write with Iso8601 renders the date and time (the time only when
\* time_only) followed, for a precision above 0, by a point and the first
\* precision digits of the nine-digit nanosecond field, and by nothing for
\* precision 0
C9_IsoPrecision ==
    Written /\ arg.format.tag = "Iso8601" =>
        /\ res.w.kind = "Ok"
        /\ res.w.text =
               IsoWhole(arg.t, arg.format.time_only)
                   \o (IF arg.format.prec = 0 THEN <<>>
                       ELSE <<".">> \o SubSeq(NanoDigits(arg.t), 1, arg.format.prec))
        /\ arg.format.prec = 0 =>
               \A k \in 1..Len(res.w.text) : res.w.text[k] # "."
        /\ arg.format.prec > 0 =>
               /\ Len(res.w.text) > arg.format.prec
               /\ res.w.text[Len(res.w.text) - arg.format.prec] = "."

\* a fraction of nines is cut to three digits, not rounded up
C9_Witness ==
    /\ Written
    /\ arg.format = OutIso8601(3, TRUE)
    /\ arg.t = NaiveDateTime(BigFromInt(86399), 999999999)
    /\ res.w.text = <<"2", "3", ":", "5", "9", ":", "5", "9", ".", "9", "9", "9">>

\* C10: a timestamp without a sub-second part, written with Unix(Seconds, 0)
\* and read back with parse_string under Unix, is the timestamp again
C10_RoundTrip ==
    /\ Written /\ arg.format = OutUnix(Seconds, 0) /\ arg.t.nanos = 0 =>
           res.w.kind = "Ok"
    /\ pc = "parse_string" /\ arg.format = OutUnix(Seconds, 0) /\ arg.t.nanos = 0 =>
           res.back = SomeTime(arg.t)

----------------------------------------------------------------------------
(* The token readers on their own: parse_string and parse_decimal applied  *)
(* to a token.                                                             *)

\* further tokens: the tokens of the tests of parse.rs, negative numbers
\* with and without a fraction, and fractions with a character that is no
\* digit at every place
MoreTokens ==
    {
      <<"1", "2", "3", "4">>,
      <<"1", "0", "0", "0", ".", "0", "0", "0", "1", "2", "3", "4", "5", "6">>,
      <<"-", "2", "0", "0", "0">>,
      <<"-", "1", "5", "0", "0", ".", "5">>,
      <<"-", "0", ".", "5">>,
      <<"-", "7", ".", "2", "5">>,
      <<"0">>,
      <<"1", "2", "3", ".", "1", "f", "o", "o">>,
      <<"f", "o", "o", ".", "1", "2", "3">>,
      <<"1", "2", "3", ".", "0", "0", "1", "0", "0", "2", "0", "0", "3", "9">>,
      <<"1", "2", "3", ".", "0", "0", "1", "0", "0", "2">>,
      <<"1", ".", "5", "x">>,
      <<"1", ".", "1", "2", "3", "4", "5", "6", "7", "8", "9", "x">>,
      <<"1", ".", "1", "2", "3", "4", "5", "6", "7", "8", "9", "0", "f", "o", "o">>,
      <<"+">>,
      <<"-">>,
      <<"-", ".", "5">>,
      <<"1", ".", ".", "5">>,
      <<"1", ".", "5", ".", "5">>
    }

ParseTokens == ReadTokens \cup MoreTokens

ParseArg(token, format) == [op |-> "parse", token |-> token, format |-> format]

ParseInit ==
    /\ build \in Builds
    /\ informat = NoFormat
    /\ outformat = OutIso8601(0, FALSE)
    /\ prev_intime = NoneTime
    /\ lines = <<>>
    /\ out = <<>>
    /\ detects = <<>>
    /\ passed = <<>>
    /\ pc = "call"
    /\ arg \in {ParseArg(token, format) : token \in ParseTokens, format \in ReadFormats}
    /\ res = NoInput

\* parse_string(&arg.token, arg.format)
CallParseToken ==
    /\ pc = "call"
    /\ arg.op = "parse"
    /\ pc' = "parse_string"
    /\ res' = parse_string(arg.token, arg.format)
    /\ UNCHANGED <<build, informat, outformat, prev_intime, lines, out, detects,
                   passed, arg>>

\* parse_decimal(&arg.token)
CallParseDecimal ==
    /\ pc = "call"
    /\ arg.op = "parse"
    /\ pc' = "parse_decimal"
    /\ res' = parse_decimal(arg.token)
    /\ UNCHANGED <<build, informat, outformat, prev_intime, lines, out, detects,
                   passed, arg>>

ParseNext == CallParseToken \/ CallParseDecimal

SpecParse == ParseInit /\ [][ParseNext]_vars

\* the token parses as a decimal number
DecimalParses(token) == parse_decimal(token).kind = "Some"

\* C11: under UnixMs every token that parses as the decimal (m, f) yields,
\* without a panic, the timestamp of m / 1000 seconds, rounded down, and
\* (m mod 1000) * 1,000,000 + f / 1000 nanoseconds, which lie in
\* 0 .. 999,999,999
C11_UnixMsExact ==
    pc = "parse_string" /\ arg.format = UnixMs /\ DecimalParses(arg.token) =>
        LET d == parse_decimal(arg.token)
            qr == BigDivModFloor(d.int, 1000)
        IN  /\ res.kind = "Some"
            /\ res.t.secs = qr.q
            /\ res.t.nanos = qr.r * 1000000 + d.nano \div 1000
            /\ res.t.nanos >= 0 /\ res.t.nanos < 1000000000

\* a timestamp as a count of nanoseconds
TotalNanos(t) == BigAdd(Big(t.secs.neg, NatShl(t.secs.mag, 9)), BigFromInt(t.nanos))

\* the signed number of nanoseconds a decimal token denotes: the sign of the
\* token on its whole and fractional part together
TokenNanos(token) ==
    LET d == parse_decimal(token)
    IN  Big(token # <<>> /\ Head(token) = "-",
            NatAdd(NatShl(d.int.mag, 9), NatFromInt(d.nano)))

\* the base of a format that counts seconds: Unix counts from the epoch
BaseOf(format) ==
    IF format.tag = "Epoc" THEN format.epoc ELSE NaiveDateTime(BigZero, 0)

\* C12: under Epoc(base), and under Unix with the epoch as base, every token
\* that parses as a decimal yields base plus the signed number of seconds the
\* token denotes, the fraction included
C12_EpocAddsSigned ==
    pc = "parse_string" /\ arg.format.tag \in {"Epoc", "Unix"}
        /\ DecimalParses(arg.token) =>
        /\ res.kind = "Some"
        /\ TotalNanos(res.t) =
               BigAdd(TotalNanos(BaseOf(arg.format)), TokenNanos(arg.token))

\* the parts of a token before and after its first point
HasPoint(token) == Find(token, {"."}) >= 0

WholePart(token) ==
    IF HasPoint(token) THEN Slice(token, 0, Find(token, {"."})) ELSE token

FractionPart(token) == Slice(token, Find(token, {"."}) + 1, Len(token))

\* an optionally signed run of digits
IsSignedDigits(s) ==
    LET body == IF HasSign(s) THEN Tail(s) ELSE s
    IN  body # <<>> /\ AllDigits(body)

\* the signed value of an optionally signed run of digits
SignedValue(s) ==
    Big(Head(s) = "-", StripZeros(DigitsOf(IF HasSign(s) THEN Tail(s) ELSE s)))

\* the first nine of the digits ds, zeros after them when they are fewer
NineDigits(ds) == SubSeq(ds \o CharsOf(ZeroSeq(9)), 1, 9)

\* C13: parse_decimal takes the nanoseconds from the fractional digits only:
\* 0 without a point, with the signed value of the token as the whole part;
\* the digits with zeros after them up to nine when they are 1 to 8; the
\* first nine digits when they are 9 or more; always below 1,000,000,000
C13_NanosFromDigits ==
    pc = "parse_decimal" =>
        /\ res.kind = "Some" => res.nano >= 0 /\ res.nano < 1000000000
        /\ ~HasPoint(arg.token) /\ IsSignedDigits(arg.token)
               /\ FitsI64(SignedValue(arg.token)) =>
               res = [kind |-> "Some", int |-> SignedValue(arg.token), nano |-> 0]
        /\ HasPoint(arg.token) /\ IsSignedDigits(WholePart(arg.token))
               /\ FitsI64(SignedValue(WholePart(arg.token)))
               /\ FractionPart(arg.token) # <<>> /\ AllDigits(FractionPart(arg.token)) =>
               /\ res.kind = "Some"
               /\ CharsOf(PadTo(NatFromInt(res.nano), 9)) =
                      NineDigits(FractionPart(arg.token))

\* ten fractional digits: the tenth, a 9, is dropped and the ninth is kept
C13_Witness ==
    /\ pc = "parse_decimal"
    /\ arg.token = <<"1", "2", "3", ".", "0", "0", "1", "0", "0", "2", "0", "0", "3", "9">>
    /\ res.nano = 1002003

\* C14: parse_decimal returns no value when the part before the point is not
\* an optionally signed run of digits or does not fit 64 bits, or when the
\* part after the point is empty or holds anything but digits
C14_MalformedIsNone ==
    pc = "parse_decimal"
        /\ (\/ ~IsSignedDigits(WholePart(arg.token))
            \/ ~FitsI64(SignedValue(WholePart(arg.token)))
            \/ HasPoint(arg.token)
                   /\ (FractionPart(arg.token) = <<>> \/ ~AllDigits(FractionPart(arg.token))))
        => res = NoDecimal

----------------------------------------------------------------------------
(* format_seconds on its own: one call at a precision, then a second call  *)
(* on the same seconds, nanoseconds and unit at a precision not smaller.   *)

FormatSeconds ==
    {BigFromInt(0), BigFromInt(59), BigFromInt(982240496), Big(FALSE, I64MaxMag),
     BigFromInt(-1), Big(TRUE, I64MinMag)}

FormatNanos == {0, 1, 1002003, 123456789, 500000000, 999999999}

FormatArg(seconds, nanos, units, prec, again) ==
    [op |-> "format", seconds |-> seconds, nanos |-> nanos, units |-> units,
     prec |-> prec, again |-> again]

FormatInit ==
    /\ build \in Builds
    /\ informat = NoFormat
    /\ outformat = OutUnix(Seconds, 0)
    /\ prev_intime = NoneTime
    /\ lines = <<>>
    /\ out = <<>>
    /\ detects = <<>>
    /\ passed = <<>>
    /\ pc = "call"
    /\ arg \in {FormatArg(seconds, nanos, units, prec, again) :
                    seconds \in FormatSeconds, nanos \in FormatNanos,
                    units \in Units, prec \in Precisions, again \in Precisions}
    /\ arg.prec <= arg.again
    /\ res = NoInput

\* format_seconds(seconds, nanos, units, Precision(prec))
CallFormatSeconds ==
    /\ pc = "call"
    /\ arg.op = "format"
    /\ pc' = "format_seconds"
    /\ res' = format_seconds(arg.seconds, NatFromInt(arg.nanos), arg.units, arg.prec)
    /\ UNCHANGED <<build, informat, outformat, prev_intime, lines, out, detects,
                   passed, arg>>

\* the same call at the precision again, the first result kept beside it
CallFormatAgain ==
    /\ pc = "format_seconds"
    /\ arg.op = "format"
    /\ pc' = "format_again"
    /\ res' = [first |-> res,
               again |-> format_seconds(arg.seconds, NatFromInt(arg.nanos),
                                        arg.units, arg.again)]
    /\ UNCHANGED <<build, informat, outformat, prev_intime, lines, out, detects,
                   passed, arg>>

FormatNext == CallFormatSeconds \/ CallFormatAgain

SpecFormat == FormatInit /\ [][FormatNext]_vars

\* the remainder of the nanoseconds below one unit, as 9 - 3 units digits
RemainderText(nanos, units) ==
    IF units = Nanoseconds THEN <<>>
    ELSE ZeroPadText(nanos % Pow10(9 - 3 * units), 9 - 3 * units)

\* the point and exactly prec digits of the remainder: its leading digits,
\* zeros after them when prec is larger than the remainder is long
FractionText(nanos, units, prec) ==
    IF prec = 0 THEN <<>>
    ELSE <<".">> \o SubSeq(RemainderText(nanos, units) \o CharsOf(ZeroSeq(9)), 1, prec)

\* seconds * 1000^units + nanos / 1000^(3 - units), seconds not negative
WholeUnits(seconds, nanos, units) ==
    NatAdd(NatShl(seconds.mag, 3 * units), NatFromInt(nanos \div Pow10(9 - 3 * units)))

\* C15: for seconds not negative, format_seconds prints
\* seconds * 1000^units + nanos / 1000^(3 - units), nothing more at precision
\* 0, and otherwise a point and exactly prec digits: the leading digits of
\* the remainder written in 9 - 3 units digits, zeros added on the right
\* when prec is larger
C15_FormatSeconds ==
    pc = "format_seconds" /\ ~arg.seconds.neg =>
        res = TextResult(NatText(WholeUnits(arg.seconds, arg.nanos, arg.units))
                             \o FractionText(arg.nanos, arg.units, arg.prec))

\* 982240496 s and 123456789 ns in milliseconds at precision 5
C15_Witness ==
    /\ pc = "format_seconds"
    /\ arg = FormatArg(BigFromInt(982240496), 123456789, Milliseconds, 5, 5)
    /\ res.text = <<"9", "8", "2", "2", "4", "0", "4", "9", "6", "1", "2", "3",
                    ".", "4", "5", "6", "7", "8">>

\* the characters of text after its point, none without a point
FractionSuffix(text) ==
    IF Find(text, {"."}) < 0 THEN <<>>
    ELSE Slice(text, Find(text, {"."}) + 1, Len(text))

\* C16: for any seconds, format_seconds does not panic, and the fraction it
\* prints is no longer than the precision
C16_NeverPanics ==
    pc = "format_seconds" =>
        /\ res.kind = "Ok"
        /\ Len(FractionSuffix(res.text)) <= arg.prec

\* text cut back to prec digits after the point, the point dropped at 0
CutBack(text, prec) ==
    LET point == Find(text, {"."})
    IN  IF point < 0 THEN text
        ELSE IF prec = 0 THEN Slice(text, 0, point)
        ELSE Slice(text, 0, Min(Len(text), point + 1 + prec))

\* C17: the rendering at a precision q, cut back to p <= q digits after the
\* point, is the rendering at p
C17_PrecisionConsistent ==
    pc = "format_again" /\ arg.prec <= arg.again =>
        /\ res.first.kind = res.again.kind
        /\ res.first.kind = "Ok" =>
               CutBack(res.again.text, arg.prec) = res.first.text

\* 123456789 ns in milliseconds: ".45" at precision 2, ".45678" at 5
C17_Witness ==
    /\ pc = "format_again"
    /\ arg = FormatArg(BigFromInt(59), 123456789, Milliseconds, 2, 5)
    /\ res.first.text = <<"5", "9", "1", "2", "3", ".", "4", "5">>
    /\ res.again.text = <<"5", "9", "1", "2", "3", ".", "4", "5", "6", "7", "8">>

----------------------------------------------------------------------------
(* Detection and parsing in the driving loop.                              *)

\* the line from its first space or tab on
FromWhitespace(line) == Slice(line, Find(line, Whitespace), Len(line))

\* C18: a line on which detect_format returns a format is parsed under that
\* format to a timestamp, without a panic, and is emitted with a rewritten
\* timestamp and the remainder that starts at its first space or tab
C18_DetectionParses ==
    \A k \in Read :
        detects[k].kind = "Some" =>
            /\ passed[k].parsed = "Some"
            /\ k <= Len(out)
            /\ out[k].time # <<>>
            /\ out[k].text = FromWhitespace(lines[k])

----------------------------------------------------------------------------
(* The output format option (main.rs): try_parse_unit, try_parse_precision *)
(* and parse_output_format, then write under the accepted format.          *)

\* 2^64, one more than usize::MAX on a 64-bit target
Pow64Mag == <<1, 8, 4, 4, 6, 7, 4, 4, 0, 7, 3, 7, 0, 9, 5, 5, 1, 6, 1, 6>>

\* str::parse::<usize>: an optional '+', then one or more digits, in range
ParseUsize(s) ==
    LET body == IF s # <<>> /\ Head(s) = "+" THEN Tail(s) ELSE s
        m == StripZeros(DigitsOf(body))
    IN  IF body = <<>> \/ ~AllDigits(body) THEN [ok |-> FALSE, v |-> <<>>]
        ELSE IF NatCmp(m, Pow64Mag) >= 0 THEN [ok |-> FALSE, v |-> <<>>]
        ELSE [ok |-> TRUE, v |-> m]

NoUnit == [ok |-> FALSE, unit |-> Seconds]

SomeUnit(unit) == [ok |-> TRUE, unit |-> unit]

try_parse_unit(s) ==
    IF s = <<"s">> THEN SomeUnit(Seconds)
    ELSE IF s = <<"m", "s">> THEN SomeUnit(Milliseconds)
    ELSE IF s = <<"u", "s">> THEN SomeUnit(Microseconds)
    ELSE IF s = <<"n", "s">> THEN SomeUnit(Nanoseconds)
    ELSE NoUnit

\* a filter that lets every precision through
PrecisionAdmittedAny(x) == TRUE

\* .filter(|x| *x <= 9)
PrecisionAdmitted(x) == NatCmp(x, <<9>>) <= 0

NoPrecision == [ok |-> FALSE, prec |-> 0]

try_parse_precision(s) ==
    IF s # <<>> /\ Head(s) = "."
    THEN LET x == ParseUsize(Tail(s))
         IN  IF x.ok /\ PrecisionAdmitted(x.v)
             THEN [ok |-> TRUE, prec |-> NatToInt(x.v)]
             ELSE NoPrecision
    ELSE NoPrecision

\* s.split(','): the pieces between the commas, at least one
RECURSIVE Split(_)
Split(s) ==
    LET i == Find(s, {","})
    IN  IF i < 0 THEN <<s>>
        ELSE <<Slice(s, 0, i)>> \o Split(Slice(s, i + 1, Len(s)))

ErrFormat == [kind |-> "Err", format |-> OutUnix(Seconds, 0)]

OkFormat(format) == [kind |-> "Ok", format |-> format]

\* the loop over the options of "iso": a precision or nodate
RECURSIVE IsoOptions(_, _, _)
IsoOptions(args, prec, time_only) ==
    IF args = <<>> THEN OkFormat(OutIso8601(prec, time_only))
    ELSE LET p == try_parse_precision(Head(args))
         IN  IF p.ok THEN IsoOptions(Tail(args), p.prec, time_only)
             ELSE IF Head(args) = <<"n", "o", "d", "a", "t", "e">>
                  THEN IsoOptions(Tail(args), prec, TRUE)
             ELSE ErrFormat

\* the loop over the options of "unix" and "delta": a unit or a precision
RECURSIVE UnitOptions(_, _, _, _)
UnitOptions(tag, args, unit, prec) ==
    IF args = <<>>
    THEN OkFormat(IF tag = "Unix" THEN OutUnix(unit, prec) ELSE OutDelta(unit, prec))
    ELSE LET u == try_parse_unit(Head(args))
             p == try_parse_precision(Head(args))
         IN  IF u.ok THEN UnitOptions(tag, Tail(args), u.unit, prec)
             ELSE IF p.ok THEN UnitOptions(tag, Tail(args), unit, p.prec)
             ELSE ErrFormat

parse_output_format(s) ==
    LET args == Split(s)
        fmt == Head(args)
    IN  IF fmt = <<"i", "s", "o">> THEN IsoOptions(Tail(args), 0, FALSE)
        ELSE IF fmt = <<"u", "n", "i", "x">> THEN UnitOptions("Unix", Tail(args), Seconds, 0)
        ELSE IF fmt = <<"d", "e", "l", "t", "a">>
             THEN UnitOptions("Delta", Tail(args), Seconds, 0)
        ELSE ErrFormat

\* the names before the first comma of --outformat
ConfigNames ==
    {<<"i", "s", "o">>,
     <<"u", "n", "i", "x">>,
     <<"d", "e", "l", "t", "a">>,
     <<"f", "o", "o">>,
     <<>>}

\* the options after it: precisions in and out of range and malformed,
\* units, nodate, and text that is no option
ConfigOptions ==
    {<<".", "0">>,
     <<".", "3">>,
     <<".", "9">>,
     <<".", "1", "0">>,
     <<".", "0", "5">>,
     <<".", "+", "5">>,
     <<".", "-", "1">>,
     <<".">>,
     <<".", "x">>,
     <<".", "9", "9", "9", "9", "9", "9", "9", "9", "9", "9", "9", "9", "9", "9", "9", "9", "9", "9", "9", "9">>,
     <<"s">>,
     <<"m", "s">>,
     <<"u", "s">>,
     <<"n", "s">>,
     <<"h">>,
     <<"n", "o", "d", "a", "t", "e">>,
     <<>>,
     <<"f", "o", "o">>}

\* the lists of at most two options
ConfigOptionLists ==
    {<<>>} \cup {<<a>> : a \in ConfigOptions}
        \cup {<<a, b>> : a \in ConfigOptions, b \in ConfigOptions}

\* the pieces joined by commas
RECURSIVE Join(_)
Join(pieces) ==
    IF Len(pieces) = 1 THEN Head(pieces)
    ELSE Head(pieces) \o <<",">> \o Join(Tail(pieces))

ConfigTexts == {Join(<<name>> \o opts) : name \in ConfigNames, opts \in ConfigOptionLists}

\* the timestamps written under the accepted format and the timestamps
\* before them
ConfigTimes == {NaiveDateTime(BigFromInt(0), 0), NaiveDateTime(BigFromInt(982240496), 123456789)}

ConfigPrevs == {NoneTime, SomeTime(NaiveDateTime(BigFromInt(0), 0))}

ConfigArg(text) == [op |-> "config", text |-> text]

ConfigInit ==
    /\ build \in Builds
    /\ informat = NoFormat
    /\ outformat = OutUnix(Seconds, 0)
    /\ prev_intime = NoneTime
    /\ lines = <<>>
    /\ out = <<>>
    /\ detects = <<>>
    /\ passed = <<>>
    /\ pc = "call"
    /\ arg \in {ConfigArg(text) : text \in ConfigTexts}
    /\ res = NoInput

\* clap parses --outformat before process_text runs
CallParseOutputFormat ==
    /\ pc = "call"
    /\ arg.op = "config"
    /\ pc' = "configured"
    /\ res' = parse_output_format(arg.text)
    /\ UNCHANGED <<build, informat, outformat, prev_intime, lines, out, detects,
                   passed, arg>>

\* process_text writes a timestamp under the accepted format
CallConfiguredWrite ==
    /\ pc = "configured"
    /\ res.kind = "Ok"
    /\ pc' = "written"
    /\ \E t \in ConfigTimes : \E prev \in ConfigPrevs :
           res' = [kind |-> "Ok", format |-> res.format,
                   w |-> write(res.format, t, prev)]
    /\ UNCHANGED <<build, informat, outformat, prev_intime, lines, out, detects,
                   passed, arg>>

ConfigNext == CallParseOutputFormat \/ CallConfiguredWrite

SpecConfig == ConfigInit /\ [][ConfigNext]_vars

\* the options of the text: the pieces after the first comma
OptionsOf(text) == Tail(Split(text))

\* the precision d written as an option: a point, then a number equal to d
DenotesPrecision(a, d) ==
    /\ a # <<>> /\ Head(a) = "."
    /\ LET body == IF HasSign(Tail(a)) /\ Head(Tail(a)) = "+" THEN Tail(Tail(a)) ELSE Tail(a)
       IN  body # <<>> /\ AllDigits(body) /\ StripZeros(DigitsOf(body)) = <<d>>

\* a precision option outside .0 to .9
OutsidePrecision(a) ==
    a # <<>> /\ Head(a) = "." /\ \A d \in 0..9 : ~DenotesPrecision(a, d)

\* an option that is neither a precision nor known to the format named
UnknownOption(name, a) ==
    /\ a = <<>> \/ Head(a) # "."
    /\ IF name = <<"i", "s", "o">> THEN a # <<"n", "o", "d", "a", "t", "e">>
       ELSE a \notin {<<"s">>, <<"m", "s">>, <<"u", "s">>, <<"n", "s">>}

\* C19: every output format parse_output_format accepts has a precision in
\* 0..9, a text with a precision option outside .0 to .9, an unknown unit or
\* an unknown option is refused, and no write under an accepted format fails
\* the assertion of format_seconds
C19_PrecisionInRange ==
    /\ pc \in {"configured", "written"} /\ res.kind = "Ok" => res.format.prec \in 0..9
    /\ pc = "configured"
           /\ (\E k \in DOMAIN OptionsOf(arg.text) :
                   \/ OutsidePrecision(OptionsOf(arg.text)[k])
                   \/ UnknownOption(Head(Split(arg.text)), OptionsOf(arg.text)[k]))
           => res.kind = "Err"
    /\ pc = "written" => res.w.kind = "Ok"

\* "unix,ms,.9" is accepted with precision 9 and written with nine digits
C19_Witness ==
    /\ pc = "written"
    /\ arg.text = <<"u", "n", "i", "x", ",", "m", "s", ",", ".", "9">>
    /\ res.format = OutUnix(Milliseconds, 9)
    /\ res.w = TextResult(<<"9", "8", "2", "2", "4", "0", "4", "9", "6", "1", "2", "3", ".", "4", "5", "6", "7", "8", "9", "0", "0", "0">>)

====
